---- MODULE Spec2Model ----
(***************************************************************************)
(* The order-execution and position-accounting engine of the SorooshX      *)
(* exchange backend (backend/apps/trading): the REST handlers of views.py, *)
(* the serializers that validate their input, and TradingService.          *)
(*                                                                         *)
(* Amounts (prices, quantities, balances) are Decimals in the source; here *)
(* they are integers counting whole units, and a Decimal quotient is       *)
(* rounded half-even to the unit (DecDiv), as a DecimalField quantizes     *)
(* what it stores.  NULL columns and absent request fields are 0: the      *)
(* source tests them by truthiness, which 0 and None share.                *)
(*                                                                         *)
(* One step of the model is one handler, taken whole: the services run    *)
(* under transaction.atomic, so a failure inside one rolls all of it back. *)
(* The cancel handler is two steps, because order_detail loads the Order   *)
(* row before, and outside, the transaction of cancel_order and hands the  *)
(* loaded instance over: `requests` holds the instance in between.  The    *)
(* close handler of position_detail is two steps in the same way.          *)
(*                                                                         *)
(* Spec runs the order handlers.  SpecPositions runs the handlers that     *)
(* work on positions, with Position rows saved through PositionAdmin.      *)
(* SpecConstraint gives the positions table room for a second row.         *)
(* SpecAccounts runs the order handlers for two accounts in two symbols,   *)
(* SpecOwnership the handlers that take an id, called by both accounts,    *)
(* SpecReset the wallet reset among fills, closes and cancellations, and   *)
(* SpecParked parked orders next to market fills and every cancellation.   *)
(***************************************************************************)
EXTENDS Integers, Sequences, FiniteSets, TLC

VARIABLES
    wallet,      \* user -> MockWallet row
    orders,      \* Order rows, in creation order; the id is the index
    positions,   \* Position rows, in creation order; the id is the index
    trades,      \* Trade rows, in creation order
    requests,    \* the calls in progress: what a view has loaded and not yet passed on
    response,    \* what the last finished handler answered
    now          \* timezone.now(), a logical clock

vars == <<wallet, orders, positions, trades, requests, response, now>>
db == <<wallet, orders, positions, trades>>

---------------------------------------------------------------------------
(* Bounds *)

MaxOrders == 2
MaxRequests == 1
MaxPositions == 1
MaxTrades == 2
MaxRows == 2

---------------------------------------------------------------------------
(* Program constants *)

DEFAULT_BALANCE == 10000
MOCK_PRICE == 95000
TAKER_FEE_NUM == 4
TAKER_FEE_DEN == 10000
LIQ_NUM == 9
LIQ_DEN == 10

---------------------------------------------------------------------------
(* Input domains *)

Users == {"u1", "u2"}

\* symbols as a client may spell them
SymbolInputs == {"BTCUSDT", "btcusdt", "ETHUSDT"}

\* str.upper()
upper(s) == IF s = "btcusdt" THEN "BTCUSDT" ELSE s

OrderSpec(t, sd, p, sp, q, l) ==
    [order_type |-> t, side |-> sd, price |-> p, stop_price |-> sp,
     quantity |-> q, leverage |-> l, margin_mode |-> "cross"]

\* request bodies of POST /trading/orders/ (symbol apart)
MarketBuy == OrderSpec("market", "buy", 0, 0, 1, 10)
MarketSell == OrderSpec("market", "sell", 0, 0, 1, 10)
LimitBuy == OrderSpec("limit", "buy", 95000, 0, 1, 10)
LimitBuyTwo == OrderSpec("limit", "buy", 95000, 0, 2, 10)
LimitSellNegative == OrderSpec("limit", "sell", -100000, 0, 1, 10)
LimitNoPrice == OrderSpec("limit", "buy", 0, 0, 1, 10)
LimitNoQuantity == OrderSpec("limit", "buy", 95000, 0, 0, 10)
StopMarketNoStop == OrderSpec("stop_market", "sell", 0, 0, 1, 10)

OrderSpecs ==
    { MarketBuy, MarketSell, LimitBuy, LimitBuyTwo, LimitSellNegative,
      LimitNoPrice, LimitNoQuantity, StopMarketNoStop }

\* the submissions explored: every body, for u1 on BTCUSDT in either spelling
Submissions ==
    { [user |-> "u1", symbol |-> sym, data |-> d] :
          sym \in {"BTCUSDT", "btcusdt"}, d \in OrderSpecs }

\* further bodies: a market order may carry a price, and create_order then executes at it
MarketSellAbove == OrderSpec("market", "sell", 100000, 0, 1, 10)
StopLimitNoPrice == OrderSpec("stop_limit", "buy", 0, 94000, 1, 10)

\* the submissions explored where positions exist
PositionSubmissions ==
    { [user |-> "u1", symbol |-> "BTCUSDT", data |-> d] :
          d \in { MarketBuy, MarketSellAbove, StopLimitNoPrice, LimitNoQuantity } }

\* a Position row as the add form of PositionAdmin saves it
PositionRow(u, sym, sd, q, p, l, m, liq) ==
    [user |-> u, symbol |-> sym, side |-> sd, quantity |-> q, entry_price |-> p,
     leverage |-> l, margin_mode |-> "cross", margin |-> m, liquidation_price |-> liq,
     take_profit |-> 0, stop_loss |-> 0, realized_pnl |-> 0,
     is_open |-> TRUE, closed_at |-> 0]

LongTwo == PositionRow("u1", "BTCUSDT", "long", 2, 95000, 10, 19000, 86450)
ShortOne == PositionRow("u1", "BTCUSDT", "short", 1, 95000, 10, 9500, 103550)

PositionRows == { LongTwo, ShortOne }

\* a short of the second account
ShortOneOther == PositionRow("u2", "BTCUSDT", "short", 1, 95000, 10, 9500, 103550)

AccountRows == { LongTwo, ShortOneOther }

\* a limit order small enough for two of them to be active on one wallet
LimitBuySmall == OrderSpec("limit", "buy", 95000, 0, 1, 25)

\* submissions of two accounts in two symbols
AccountSubmissions ==
    { [user |-> "u1", symbol |-> "BTCUSDT", data |-> LimitBuySmall],
      [user |-> "u1", symbol |-> "ETHUSDT", data |-> LimitBuySmall],
      [user |-> "u2", symbol |-> "BTCUSDT", data |-> LimitBuySmall],
      [user |-> "u1", symbol |-> "BTCUSDT", data |-> MarketBuy] }

\* a market order that fits next to a small limit order
MarketBuySmall == OrderSpec("market", "buy", 0, 0, 1, 25)

\* submissions of two accounts in one symbol
ResetSubmissions ==
    { [user |-> "u1", symbol |-> "BTCUSDT", data |-> LimitBuySmall],
      [user |-> "u2", symbol |-> "BTCUSDT", data |-> LimitBuySmall],
      [user |-> "u1", symbol |-> "BTCUSDT", data |-> MarketSellAbove] }

\* request bodies of PATCH /trading/positions/<id>/: each threshold may be left out
ThresholdRequest(htp, tp, hsl, sl) ==
    [has_take_profit |-> htp, take_profit |-> tp, has_stop_loss |-> hsl, stop_loss |-> sl]

ThresholdRequests == { ThresholdRequest(TRUE, 90000, FALSE, 0) }

\* request bodies of DELETE /trading/positions/<id>/: both fields are optional Decimals
CloseRequest(p, q) == [price |-> p, quantity |-> q]

CloseAllAbove == CloseRequest(100000, 0)
CloseOneBelow == CloseRequest(90000, 1)
CloseTooMany == CloseRequest(0, 3)
CloseNegative == CloseRequest(100000, -1)

CloseRequests == { CloseAllAbove, CloseOneBelow, CloseTooMany, CloseNegative }

---------------------------------------------------------------------------
(* Decimal arithmetic *)

\* a / b for b > 0, rounded half-even to the unit
DecDiv(a, b) ==
    LET q == a \div b
        r == a % b
    IN  IF 2 * r < b THEN q
        ELSE IF 2 * r > b THEN q + 1
        ELSE IF q % 2 = 0 THEN q ELSE q + 1

Min(a, b) == IF a <= b THEN a ELSE b

\* Python 3: int / int is true division, whatever the operands
TrueDivType(a, b) == "float"

\* float * Decimal (either way round) is a TypeError: Decimal accepts int and Decimal only
MulRaises(ltype, rtype) ==
    \/ ltype = "float" /\ rtype = "Decimal"
    \/ ltype = "Decimal" /\ rtype = "float"

---------------------------------------------------------------------------
(* Rows *)

ActiveStatuses == {"pending", "open", "partially_filled"}

\* an activity test that lets a cancelled order through
is_active_or_cancelled(order) == order.status \in ActiveStatuses \cup {"cancelled"}

\* an activity test that lets a filled order through
is_active_or_filled(order) == order.status \in ActiveStatuses \cup {"filled"}

is_active(order) == order.status \in ActiveStatuses

NewWallet == [balance |-> DEFAULT_BALANCE, available_balance |-> DEFAULT_BALANCE]

OrderIds == 1 .. Len(orders)
PositionIds == 1 .. Len(positions)

\* Position.objects.filter(user, symbol, is_open=True).first(), ordering -created_at
existing_position(pos, u, sym) ==
    LET found == { i \in 1 .. Len(pos) :
                     pos[i].user = u /\ pos[i].symbol = sym /\ pos[i].is_open }
    IN  IF found = {} THEN 0 ELSE CHOOSE i \in found : \A j \in found : j <= i

---------------------------------------------------------------------------
(* CreateOrderSerializer.validate *)

validate(data) ==
    /\ ~(data.order_type = "limit" /\ data.price = 0)
    /\ ~(data.order_type \in {"stop_limit", "stop_market"} /\ data.stop_price = 0)
    /\ ~(data.quantity <= 0)

---------------------------------------------------------------------------
(* TradingService *)

execution_price(price) == IF price # 0 THEN price ELSE MOCK_PRICE

required_margin(quantity, price, leverage) ==
    DecDiv(quantity * execution_price(price), leverage)

\* the check made against zero instead of the required margin
insufficient_margin_against_zero(w, amount) == w.available_balance < 0

\* if wallet.available_balance < required_margin: raise ValueError
insufficient_margin(w, amount) == w.available_balance < amount

\* a reservation that also debits the balance
reserve_debiting_balance(w, amount) ==
    [balance |-> w.balance - amount, available_balance |-> w.available_balance - amount]

\* wallet.available_balance -= required_margin
reserve(w, amount) == [w EXCEPT !.available_balance = @ - amount]

\* a release that also credits the balance
release_crediting_balance(w, amount) ==
    [balance |-> w.balance + amount, available_balance |-> w.available_balance + amount]

\* wallet.available_balance += order.margin_used
release(w, amount) == [w EXCEPT !.available_balance = @ + amount]

commission_of(notional_value) == DecDiv(notional_value * TAKER_FEE_NUM, TAKER_FEE_DEN)

\* execution_price * (1 -/+ (1 / leverage) * Decimal('0.9'))
liquidation_price(side, price, leverage) ==
    IF MulRaises(TrueDivType(1, leverage), "Decimal")
    THEN [raised |-> TRUE, value |-> 0]
    ELSE [raised |-> FALSE,
          value |-> IF side = "long"
                    THEN DecDiv(price * (LIQ_DEN * leverage - LIQ_NUM), LIQ_DEN * leverage)
                    ELSE DecDiv(price * (LIQ_DEN * leverage + LIQ_NUM), LIQ_DEN * leverage)]

_create_position(order, price, side, w, pos) ==
    LET notional_value == order.quantity * price
        margin == DecDiv(notional_value, order.leverage)
        liq == liquidation_price(side, price, order.leverage)
    IN  IF liq.raised
        THEN [raised |-> TRUE, wallet |-> w, positions |-> pos]
        ELSE [raised |-> FALSE, wallet |-> w,
              positions |-> Append(pos,
                 [user |-> order.user, symbol |-> order.symbol, side |-> side,
                  quantity |-> order.quantity, entry_price |-> price,
                  leverage |-> order.leverage, margin_mode |-> order.margin_mode,
                  margin |-> margin, liquidation_price |-> liq.value,
                  take_profit |-> 0, stop_loss |-> 0, realized_pnl |-> 0,
                  is_open |-> TRUE, closed_at |-> 0])]

_add_to_position(pid, order, price, w, pos) ==
    LET position == pos[pid]
        total_value == position.entry_price * position.quantity + price * order.quantity
        new_quantity == position.quantity + order.quantity
        new_entry_price == DecDiv(total_value, new_quantity)
        liq == liquidation_price(position.side, new_entry_price, position.leverage)
    IN  IF liq.raised
        THEN [raised |-> TRUE, wallet |-> w, positions |-> pos]
        ELSE [raised |-> FALSE, wallet |-> w,
              positions |-> [pos EXCEPT ![pid] =
                 [position EXCEPT !.quantity = new_quantity,
                                  !.entry_price = new_entry_price,
                                  !.margin = @ + order.margin_used,
                                  !.liquidation_price = liq.value]]]

_reduce_position(pid, order, price, w, pos, t) ==
    LET position == pos[pid]
        closed == Min(order.quantity, position.quantity)
        pnl == IF position.side = "long"
               THEN (price - position.entry_price) * closed
               ELSE (position.entry_price - price) * closed
        full == order.quantity >= position.quantity
        released_margin == IF full THEN position.margin
                           ELSE DecDiv(position.margin * order.quantity, position.quantity)
        after == IF full
                 THEN [position EXCEPT !.realized_pnl = @ + pnl,
                                       !.is_open = FALSE,
                                       !.closed_at = t]
                 ELSE [position EXCEPT !.quantity = @ - order.quantity,
                                       !.margin = @ - released_margin,
                                       !.realized_pnl = @ + pnl]
    IN  [raised |-> FALSE,
         wallet |-> [balance |-> w.balance + pnl + released_margin,
                     available_balance |->
                         w.available_balance + pnl + released_margin + order.margin_used],
         positions |-> [pos EXCEPT ![pid] = after]]

\* a write of the newest Trade row over the last one
record_trade_over_last(trs, trade) ==
    IF trs = <<>> THEN <<trade>> ELSE [trs EXCEPT ![Len(trs)] = trade]

\* Trade.objects.create(...)
record_trade(trs, trade) == Append(trs, trade)

_execute_order(order, oid, price, w, pos, trs, t) ==
    LET notional_value == order.quantity * price
        commission == commission_of(notional_value)
        filled == [order EXCEPT !.status = "filled",
                                !.filled_quantity = order.quantity,
                                !.average_price = price,
                                !.commission = commission,
                                !.filled_at = t]
        position_side == IF order.side = "buy" THEN "long" ELSE "short"
        existing == existing_position(pos, order.user, order.symbol)
        step == IF existing # 0
                THEN IF pos[existing].side = position_side
                     THEN _add_to_position(existing, filled, price, w, pos)
                     ELSE _reduce_position(existing, filled, price, w, pos, t)
                ELSE _create_position(filled, price, position_side, w, pos)
        trade == [user |-> order.user, order |-> oid, position |-> existing,
                  symbol |-> order.symbol, side |-> order.side, price |-> price,
                  quantity |-> order.quantity, commission |-> commission,
                  realized_pnl |-> 0, executed_at |-> t]
    IN  IF step.raised
        THEN [raised |-> TRUE, order |-> order, wallet |-> w,
              positions |-> pos, trades |-> trs]
        ELSE [raised |-> FALSE, order |-> filled,
              wallet |-> [balance |-> step.wallet.balance - commission,
                          available_balance |-> step.wallet.available_balance - commission],
              positions |-> step.positions, trades |-> record_trade(trs, trade)]

\* an order type that stop_limit shares with market
executes_immediately_or_stop(order_type) == order_type \in {"market", "stop_limit"}

\* if order_type == Order.Type.MARKET
executes_immediately(order_type) == order_type = "market"

\* the Order row create_order builds before it reserves
new_order(u, sym, data) ==
    [user |-> u, symbol |-> upper(sym), side |-> data.side,
     order_type |-> data.order_type, status |-> "pending",
     price |-> data.price, stop_price |-> data.stop_price,
     quantity |-> data.quantity, filled_quantity |-> 0,
     leverage |-> data.leverage, margin_mode |-> data.margin_mode,
     margin_used |-> required_margin(data.quantity, data.price, data.leverage),
     average_price |-> 0, commission |-> 0, filled_at |-> 0, cancelled_at |-> 0]

\* a create_order whose order and reservation outlive a fill that raises
create_order_without_rollback(u, sym, data, w, ords, pos, trs, t) ==
    LET price == execution_price(data.price)
        margin == required_margin(data.quantity, data.price, data.leverage)
        order == new_order(u, sym, data)
        reserved == reserve(w, margin)
        exec == _execute_order(order, Len(ords) + 1, price, reserved, pos, trs, t)
    IN  IF insufficient_margin(w, margin)
        THEN [outcome |-> "InsufficientMargin", wallet |-> w, orders |-> ords,
              positions |-> pos, trades |-> trs]
        ELSE IF executes_immediately(data.order_type)
        THEN IF exec.raised
             THEN [outcome |-> "TypeError", wallet |-> reserved,
                   orders |-> Append(ords, order), positions |-> pos, trades |-> trs]
             ELSE [outcome |-> "created", wallet |-> exec.wallet,
                   orders |-> Append(ords, exec.order),
                   positions |-> exec.positions, trades |-> exec.trades]
        ELSE [outcome |-> "created", wallet |-> reserved,
              orders |-> Append(ords, [order EXCEPT !.status = "open"]),
              positions |-> pos, trades |-> trs]

\* outcome of TradingService.create_order on a validated request
create_order(u, sym, data, w, ords, pos, trs, t) ==
    LET price == execution_price(data.price)
        margin == required_margin(data.quantity, data.price, data.leverage)
        order == new_order(u, sym, data)
        oid == Len(ords) + 1
        reserved == reserve(w, margin)
        exec == _execute_order(order, oid, price, reserved, pos, trs, t)
    IN  IF insufficient_margin(w, margin)
        THEN [outcome |-> "InsufficientMargin", wallet |-> w, orders |-> ords,
              positions |-> pos, trades |-> trs]
        ELSE IF executes_immediately(data.order_type)
        THEN IF exec.raised
             THEN [outcome |-> "TypeError", wallet |-> w, orders |-> ords,
                   positions |-> pos, trades |-> trs]
             ELSE [outcome |-> "created", wallet |-> exec.wallet,
                   orders |-> Append(ords, exec.order),
                   positions |-> exec.positions, trades |-> exec.trades]
        ELSE [outcome |-> "created", wallet |-> reserved,
              orders |-> Append(ords, [order EXCEPT !.status = "open"]),
              positions |-> pos, trades |-> trs]

\* a credit that reaches the available balance only
credit_available_only(w, amount) == [w EXCEPT !.available_balance = @ + amount]

\* wallet.balance += amount; wallet.available_balance += amount
credit(w, amount) ==
    [balance |-> w.balance + amount, available_balance |-> w.available_balance + amount]

\* outcome of TradingService.close_position on a loaded Position instance
close_position(position, pid, price, quantity, w, trs, t) ==
    LET close_price == IF price # 0 THEN price ELSE MOCK_PRICE
        close_quantity == IF quantity # 0 THEN quantity ELSE position.quantity
        pnl == IF position.side = "long"
               THEN (close_price - position.entry_price) * close_quantity
               ELSE (position.entry_price - close_price) * close_quantity
        notional_value == close_quantity * close_price
        commission == commission_of(notional_value)
        trade == [user |-> position.user, order |-> 0, position |-> pid,
                  symbol |-> position.symbol,
                  side |-> IF position.side = "long" THEN "sell" ELSE "buy",
                  price |-> close_price, quantity |-> close_quantity,
                  commission |-> commission, realized_pnl |-> pnl, executed_at |-> t]
        full == close_quantity >= position.quantity
        released_margin == IF full THEN position.margin
                           ELSE DecDiv(position.margin * close_quantity, position.quantity)
        after == IF full
                 THEN [position EXCEPT !.realized_pnl = @ + pnl,
                                       !.quantity = 0,
                                       !.is_open = FALSE,
                                       !.closed_at = t]
                 ELSE [position EXCEPT !.quantity = @ - close_quantity,
                                       !.margin = @ - released_margin,
                                       !.realized_pnl = @ + pnl]
        net_pnl == pnl - commission
    IN  IF ~position.is_open
        THEN [outcome |-> "InvalidState", wallet |-> w, position |-> position, trades |-> trs]
        ELSE IF close_quantity > position.quantity
        THEN [outcome |-> "ValidationError", wallet |-> w, position |-> position,
              trades |-> trs]
        ELSE [outcome |-> "ok", wallet |-> credit(w, net_pnl + released_margin),
              position |-> after, trades |-> record_trade(trs, trade)]

---------------------------------------------------------------------------
(* Handlers *)

Response(op, outcome, n) == [op |-> op, outcome |-> outcome, count |-> n]

Init ==
    /\ wallet = [u \in Users |-> NewWallet]
    /\ orders = <<>>
    /\ positions = <<>>
    /\ trades = <<>>
    /\ requests = <<>>
    /\ response = Response("none", "none", 0)
    /\ now = 1

\* the calls in progress without the r-th
Finished(r) == [i \in 1 .. Len(requests) - 1 |-> IF i < r THEN requests[i] ELSE requests[i + 1]]

\* POST /trading/orders/
orders_list_post(u, sym, data) ==
    /\ Len(orders) < MaxOrders
    /\ IF ~validate(data)
       THEN /\ response' = Response("submitOrder", "ValidationError", 0)
            /\ UNCHANGED <<db, requests, now>>
       ELSE LET res == create_order(u, sym, data, wallet[u], orders, positions, trades, now)
            IN  /\ wallet' = [wallet EXCEPT ![u] = res.wallet]
                /\ orders' = res.orders
                /\ positions' = res.positions
                /\ trades' = res.trades
                /\ response' = Response("submitOrder", res.outcome, 0)
                /\ now' = IF res.outcome = "created" /\ Len(res.trades) > Len(trades)
                          THEN now + 1 ELSE now
                /\ UNCHANGED requests

\* DELETE /trading/orders/<id>/, up to the call of the service:
\* Order.objects.get(id=order_id, user=user) and the view's own is_active test
order_detail_delete(u, order_id) ==
    IF ~(order_id \in OrderIds /\ orders[order_id].user = u)
    THEN /\ response' = Response("cancelOrder", "NotFound", 0)
         /\ UNCHANGED <<db, requests, now>>
    ELSE IF ~is_active(orders[order_id])
    THEN /\ response' = Response("cancelOrder", "InvalidState", 0)
         /\ UNCHANGED <<db, requests, now>>
    ELSE /\ Len(requests) < MaxRequests
         /\ requests' = Append(requests,
                [kind |-> "cancelOrder", user |-> u, id |-> order_id,
                 order |-> orders[order_id]])
         /\ UNCHANGED <<db, response, now>>

\* a cancellation that marks the order rejected
cancel_order_rejecting(order, w, t) ==
    IF ~is_active(order)
    THEN [raised |-> TRUE, wallet |-> w, order |-> order]
    ELSE [raised |-> FALSE,
          wallet |-> release(w, order.margin_used),
          order |-> [order EXCEPT !.status = "rejected", !.cancelled_at = t]]

\* TradingService.cancel_order on a loaded Order instance: the ledger and the row it writes
cancel_order(order, w, t) ==
    IF ~is_active(order)
    THEN [raised |-> TRUE, wallet |-> w, order |-> order]
    ELSE [raised |-> FALSE,
          wallet |-> release(w, order.margin_used),
          order |-> [order EXCEPT !.status = "cancelled", !.cancelled_at = t]]

\* DELETE /trading/orders/<id>/, the call of TradingService.cancel_order and the answer
order_detail_cancel(r) ==
    /\ requests[r].kind = "cancelOrder"
    /\ LET req == requests[r]
           res == cancel_order(req.order, wallet[req.user], now)
       IN  IF res.raised
           THEN /\ response' = Response("cancelOrder", "ValueError", 0)
                /\ UNCHANGED <<db, now>>
           ELSE /\ wallet' = [wallet EXCEPT ![req.user] = res.wallet]
                /\ orders' = [orders EXCEPT ![req.id] = res.order]
                /\ response' = Response("cancelOrder", "ok", 0)
                /\ now' = now + 1
                /\ UNCHANGED <<positions, trades>>
    /\ requests' = Finished(r)

\* a queryset without the symbol filter
active_orders_of_any_symbol(ords, u, sym) ==
    { i \in 1 .. Len(ords) : ords[i].user = u /\ is_active(ords[i]) }

\* the queryset of TradingService.cancel_all_orders
active_orders(ords, u, sym) ==
    { i \in 1 .. Len(ords) :
        /\ ords[i].user = u
        /\ is_active(ords[i])
        /\ (sym # "" => ords[i].symbol = upper(sym)) }

RECURSIVE SumMargin(_, _)
SumMargin(ords, ids) ==
    IF ids = {} THEN 0
    ELSE LET i == CHOOSE j \in ids : TRUE
         IN  ords[i].margin_used + SumMargin(ords, ids \ {i})

\* DELETE /trading/orders/cancel-all/: TradingService.cancel_all_orders in one transaction
\* a batch that commits after each cancellation: one step cancels the first active order
cancel_all_orders_one_by_one(u, sym) ==
    LET ids == active_orders(orders, u, sym)
        first == CHOOSE i \in ids : \A j \in ids : i <= j
    IN  /\ ids # {}
        /\ wallet' = [wallet EXCEPT ![u] = release(@, orders[first].margin_used)]
        /\ orders' = [orders EXCEPT ![first] = cancel_order(@, wallet[u], now).order]
        /\ response' = Response("cancelAllOrders", "ok", 1)
        /\ now' = now + 1
        /\ UNCHANGED <<positions, trades, requests>>

\* an order whose cancel_order raises ValueError is passed over and not counted
cancel_all_orders(u, sym) ==
    LET ids == { i \in active_orders(orders, u, sym) :
                   ~cancel_order(orders[i], wallet[u], now).raised }
    IN  /\ wallet' = [wallet EXCEPT ![u] = release(@, SumMargin(orders, ids))]
        /\ orders' = [i \in 1 .. Len(orders) |->
                        IF i \in ids THEN cancel_order(orders[i], wallet[u], now).order
                        ELSE orders[i]]
        /\ response' = Response("cancelAllOrders", "ok", Cardinality(ids))
        /\ now' = IF ids = {} THEN now ELSE now + 1
        /\ UNCHANGED <<positions, trades, requests>>

\* a reset that does not look at the owner of the rows
wallet_reset_every_account(u) ==
    /\ wallet' = [a \in Users |-> NewWallet]
    /\ positions' = [i \in PositionIds |->
                       IF positions[i].is_open
                       THEN [positions[i] EXCEPT !.is_open = FALSE, !.closed_at = now]
                       ELSE positions[i]]
    /\ orders' = [i \in OrderIds |->
                    IF is_active(orders[i])
                    THEN [orders[i] EXCEPT !.status = "cancelled", !.cancelled_at = now]
                    ELSE orders[i]]
    /\ now' = now + 1
    /\ response' = Response("resetWallet", "ok", 0)
    /\ UNCHANGED <<trades, requests>>

\* POST /trading/wallet/reset/: the wallet row is overwritten, then the open positions
\* and the active orders of the user are updated in bulk
wallet_reset(u) ==
    LET hitp == { i \in PositionIds : positions[i].user = u /\ positions[i].is_open }
        hito == { i \in OrderIds : orders[i].user = u /\ is_active(orders[i]) }
    IN  /\ wallet' = [wallet EXCEPT ![u] = NewWallet]
        /\ positions' = [i \in PositionIds |->
                           IF i \in hitp
                           THEN [positions[i] EXCEPT !.is_open = FALSE, !.closed_at = now]
                           ELSE positions[i]]
        /\ orders' = [i \in OrderIds |->
                        IF i \in hito
                        THEN [orders[i] EXCEPT !.status = "cancelled", !.cancelled_at = now]
                        ELSE orders[i]]
        /\ now' = IF hitp = {} /\ hito = {} THEN now ELSE now + 1
        /\ response' = Response("resetWallet", "ok", 0)
        /\ UNCHANGED <<trades, requests>>

\* a constraint that lets every row in
unique_open_position_unchecked(pos, id, row) == TRUE

\* UniqueConstraint(fields=['user', 'symbol', 'side'], condition=Q(is_open=True)):
\* whether row may be stored under id next to the other rows of pos
unique_open_position(pos, id, row) ==
    row.is_open =>
        ~\E i \in 1 .. Len(pos) :
            /\ i # id
            /\ pos[i].is_open
            /\ pos[i].user = row.user
            /\ pos[i].symbol = row.symbol
            /\ pos[i].side = row.side

\* the add form of PositionAdmin: the row is saved unless it breaks unique_open_position
position_admin_add(row) ==
    IF unique_open_position(positions, Len(positions) + 1, row)
    THEN /\ positions' = Append(positions, row)
         /\ response' = Response("addPosition", "ok", 0)
         /\ UNCHANGED <<wallet, orders, trades, requests, now>>
    ELSE /\ response' = Response("addPosition", "IntegrityError", 0)
         /\ UNCHANGED <<db, requests, now>>

\* a lookup by id alone
position_detail_delete_of_anyone(u, position_id) ==
    IF ~(position_id \in PositionIds /\ positions[position_id].is_open)
    THEN /\ response' = Response("closePosition", "NotFound", 0)
         /\ UNCHANGED <<db, requests, now>>
    ELSE /\ Len(requests) < MaxRequests
         /\ requests' = Append(requests,
                [kind |-> "closePosition", user |-> u, id |-> position_id,
                 position |-> positions[position_id]])
         /\ UNCHANGED <<db, response, now>>

\* DELETE /trading/positions/<id>/, up to the call of the service:
\* Position.objects.get(id=position_id, user=user, is_open=True)
position_detail_delete(u, position_id) ==
    IF ~(/\ position_id \in PositionIds
         /\ positions[position_id].user = u
         /\ positions[position_id].is_open)
    THEN /\ response' = Response("closePosition", "NotFound", 0)
         /\ UNCHANGED <<db, requests, now>>
    ELSE /\ Len(requests) < MaxRequests
         /\ requests' = Append(requests,
                [kind |-> "closePosition", user |-> u, id |-> position_id,
                 position |-> positions[position_id]])
         /\ UNCHANGED <<db, response, now>>

\* DELETE /trading/positions/<id>/, from ClosePositionSerializer on: the call of
\* TradingService.close_position with the body's price and quantity, and the answer
position_detail_close(r, data) ==
    /\ requests[r].kind = "closePosition"
    /\ Len(trades) < MaxTrades
    /\ LET req == requests[r]
           res == close_position(req.position, req.id, data.price, data.quantity,
                                 wallet[req.user], trades, now)
       IN  IF res.outcome = "ok" /\ ~unique_open_position(positions, req.id, res.position)
           THEN /\ response' = Response("closePosition", "IntegrityError", 0)
                /\ UNCHANGED <<db, now>>
           ELSE /\ wallet' = [wallet EXCEPT ![req.user] = res.wallet]
                /\ positions' = [positions EXCEPT ![req.id] = res.position]
                /\ trades' = res.trades
                /\ response' = Response("closePosition", res.outcome, 0)
                /\ now' = IF res.outcome = "ok" THEN now + 1 ELSE now
                /\ UNCHANGED orders
    /\ requests' = Finished(r)

\* PATCH /trading/positions/<id>/: the thresholds present in the body are set and the
\* loaded row is saved
position_detail_patch(u, position_id, data) ==
    IF ~(/\ position_id \in PositionIds
         /\ positions[position_id].user = u
         /\ positions[position_id].is_open)
    THEN /\ response' = Response("updatePositionThresholds", "NotFound", 0)
         /\ UNCHANGED <<db, requests, now>>
    ELSE /\ positions' = [positions EXCEPT ![position_id] =
                [@ EXCEPT !.take_profit = IF data.has_take_profit
                                          THEN data.take_profit ELSE @,
                          !.stop_loss = IF data.has_stop_loss THEN data.stop_loss ELSE @]]
         /\ response' = Response("updatePositionThresholds", "ok", 0)
         /\ UNCHANGED <<wallet, orders, trades, requests, now>>

Next ==
    \/ \E sub \in Submissions : orders_list_post(sub.user, sub.symbol, sub.data)
    \/ \E u \in Users, id \in 1 .. MaxOrders : order_detail_delete(u, id)
    \/ \E r \in DOMAIN requests : order_detail_cancel(r)
    \/ \E u \in Users, sym \in SymbolInputs \cup {""} : cancel_all_orders(u, sym)
    \/ \E u \in Users : wallet_reset(u)

Spec == Init /\ [][Next]_vars

\* the handlers that involve positions, on positions entered through the admin site
NextPositions ==
    \/ \E row \in PositionRows :
          /\ Len(positions) < MaxPositions
          /\ position_admin_add(row)
    \/ \E sub \in PositionSubmissions :
          /\ Len(trades) < MaxTrades
          /\ orders_list_post(sub.user, sub.symbol, sub.data)
    \/ \E id \in 1 .. MaxPositions : position_detail_delete("u1", id)
    \/ \E r \in DOMAIN requests, data \in CloseRequests : position_detail_close(r, data)

SpecPositions == Init /\ [][NextPositions]_vars

\* the handlers that save or look up Position rows, with room for a second row
NextConstraint ==
    \/ \E row \in PositionRows :
          /\ Len(positions) < MaxRows
          /\ position_admin_add(row)
    \/ \E data \in {MarketBuy} :
          /\ Len(trades) < MaxTrades
          /\ orders_list_post("u1", "BTCUSDT", data)
    \/ \E id \in 1 .. MaxRows : position_detail_delete("u1", id)
    \/ \E r \in DOMAIN requests, data \in {CloseAllAbove, CloseOneBelow} :
          position_detail_close(r, data)
    \/ wallet_reset("u1")

SpecConstraint == Init /\ [][NextConstraint]_vars

\* the order handlers of two accounts in two symbols, with fills against an open short
NextAccounts ==
    \/ /\ Len(positions) < MaxPositions
       /\ position_admin_add(ShortOne)
    \/ \E sub \in AccountSubmissions :
          /\ Len(trades) < MaxTrades
          /\ orders_list_post(sub.user, sub.symbol, sub.data)
    \/ \E id \in 1 .. MaxOrders : order_detail_delete("u1", id)
    \/ \E r \in DOMAIN requests : order_detail_cancel(r)
    \/ \E sym \in {"", "btcusdt"} : cancel_all_orders("u1", sym)

SpecAccounts == Init /\ [][NextAccounts]_vars

\* the handlers that are given an id, called by two accounts one call at a time
NextOwnership ==
    \/ /\ Len(positions) < MaxPositions
       /\ position_admin_add(ShortOne)
    \/ orders_list_post("u1", "BTCUSDT", LimitBuySmall)
    \/ \E u \in Users, id \in 1 .. MaxOrders :
          /\ requests = <<>>
          /\ order_detail_delete(u, id)
    \/ \E r \in DOMAIN requests : order_detail_cancel(r)
    \/ \E u \in Users, id \in 1 .. MaxPositions :
          /\ requests = <<>>
          /\ position_detail_delete(u, id)
    \/ \E r \in DOMAIN requests : position_detail_close(r, CloseAllAbove)
    \/ \E u \in Users, id \in 1 .. MaxPositions, data \in ThresholdRequests :
          position_detail_patch(u, id, data)

SpecOwnership == Init /\ [][NextOwnership]_vars

\* the wallet reset of the first account among fills, closes and cancellations, with
\* rows of the second account standing by
NextReset ==
    \/ \E row \in AccountRows :
          /\ Len(positions) < MaxPositions
          /\ position_admin_add(row)
    \/ \E sub \in ResetSubmissions :
          /\ Len(trades) < MaxTrades
          /\ orders_list_post(sub.user, sub.symbol, sub.data)
    \/ cancel_all_orders("u1", "")
    \/ \E id \in 1 .. MaxPositions : position_detail_delete("u1", id)
    \/ \E r \in DOMAIN requests : position_detail_close(r, CloseAllAbove)
    \/ wallet_reset("u1")

SpecReset == Init /\ [][NextReset]_vars

\* parked orders of one account next to market fills, with every handler that cancels
NextParked ==
    \/ /\ Len(positions) < MaxPositions
       /\ position_admin_add(ShortOne)
    \/ \E data \in {LimitBuySmall, MarketBuySmall} :
          /\ Len(trades) < MaxTrades
          /\ orders_list_post("u1", "BTCUSDT", data)
    \/ \E id \in 1 .. MaxOrders : order_detail_delete("u1", id)
    \/ \E r \in DOMAIN requests : order_detail_cancel(r)
    \/ cancel_all_orders("u1", "")
    \/ wallet_reset("u1")

SpecParked == Init /\ [][NextParked]_vars

---------------------------------------------------------------------------
(* Properties *)

\* what a submission is expected to reserve, spelled out: quantity x price / leverage
ExpectedPrice(data) == IF data.price # 0 THEN data.price ELSE MOCK_PRICE
ExpectedNotional(data) == data.quantity * ExpectedPrice(data)

RECURSIVE SumOf(_, _)
SumOf(f, ids) ==
    IF ids = {} THEN 0
    ELSE LET i == CHOOSE j \in ids : TRUE IN f[i] + SumOf(f, ids \ {i})

\* margin reserved for u: margin_used of its active orders plus margin of its open positions
ReservedMargin(u) ==
    SumOf([i \in OrderIds |-> orders[i].margin_used],
          { i \in OrderIds : orders[i].user = u /\ is_active(orders[i]) })
    + SumOf([i \in PositionIds |-> positions[i].margin],
            { i \in PositionIds : positions[i].user = u /\ positions[i].is_open })

\* C1: after every committed operation the available balance of every account is >= 0.
AvailableNonNegative == \A u \in Users : wallet[u].available_balance >= 0

\* C2: in every reachable state, under every interleaving, available <= balance.
AvailableAtMostBalance == \A u \in Users : wallet[u].available_balance <= wallet[u].balance

\* C3: in every committed state available = balance - reserved margin (active orders'
\* margin_used plus open positions' margin).
AvailableIsBalanceMinusReserved ==
    \A u \in Users : wallet[u].available_balance = wallet[u].balance - ReservedMargin(u)

\* C4: a submission that passes validation and the margin check reserves exactly
\* quantity x execution_price / leverage: the reservation takes that amount from available
\* and leaves balance alone, the order carries it as margin_used, and for an order parked
\* as open the committed ledger differs from the ledger before by exactly that.
ReservationIsExact ==
    [][\A sub \in Submissions :
         LET u == sub.user
             data == sub.data
             oid == Len(orders) + 1
             pending == new_order(u, sub.symbol, data)
             reserved == reserve(wallet[u], pending.margin_used)
         IN  (/\ orders_list_post(u, sub.symbol, data)
              /\ validate(data)
              /\ wallet[u].available_balance * data.leverage >= ExpectedNotional(data))
             => /\ pending.margin_used * data.leverage = ExpectedNotional(data)
                /\ reserved.available_balance
                     = wallet[u].available_balance - pending.margin_used
                /\ reserved.balance = wallet[u].balance
                /\ data.order_type # "market"
                   => /\ response'.outcome = "created"
                      /\ Len(orders') = oid
                      /\ orders'[oid].status = "open"
                      /\ orders'[oid].margin_used * data.leverage = ExpectedNotional(data)
                      /\ wallet'[u].available_balance * data.leverage
                           = wallet[u].available_balance * data.leverage
                               - ExpectedNotional(data)
                      /\ wallet'[u].balance = wallet[u].balance
                      /\ \A v \in Users \ {u} : wallet'[v] = wallet[v]]_vars

\* a parked order took exactly its margin from the available balance
ReservationWitness ==
    /\ response = Response("submitOrder", "created", 0)
    /\ Len(orders) = 1
    /\ orders[1].status = "open"
    /\ orders[1].margin_used = 9500
    /\ wallet[orders[1].user] = [balance |-> 10000, available_balance |-> 500]

\* C5: a valid submission whose required margin exceeds the available balance is answered
\* InsufficientMargin and leaves orders, positions, trades and every wallet as they were;
\* and no submission answered InsufficientMargin changes any of them.
InsufficientMarginAborts ==
    [][\A sub \in Submissions :
         orders_list_post(sub.user, sub.symbol, sub.data)
         => /\ (/\ validate(sub.data)
                /\ wallet[sub.user].available_balance * sub.data.leverage
                     < ExpectedNotional(sub.data))
               => response'.outcome = "InsufficientMargin"
            /\ response'.outcome = "InsufficientMargin"
               => /\ wallet' = wallet
                  /\ orders' = orders
                  /\ positions' = positions
                  /\ trades' = trades]_vars

\* a submission was refused for margin, and nothing was created
InsufficientMarginWitness ==
    /\ response = Response("submitOrder", "InsufficientMargin", 0)
    /\ orders = <<>>
    /\ wallet["u1"] = NewWallet

\* C6: operations on one account are serialized; in particular a cancellation takes effect
\* only on an order that is active when it commits, so no margin is released twice.
CancelSeesCommittedOrder ==
    [][\A r \in DOMAIN requests :
         (order_detail_cancel(r) /\ response'.outcome = "ok")
         => is_active(orders[requests[r].id])]_vars

\* C7: cancelOrder on an order that is not active answers InvalidState and changes nothing;
\* on an active order it adds exactly margin_used to available, leaves balance, every other
\* wallet and order, the positions and the trades alone, and marks the order cancelled with
\* cancelled_at set.
CancelOrderContract ==
    [][/\ \A u \in Users, id \in 1 .. MaxOrders :
            (/\ order_detail_delete(u, id)
             /\ id \in OrderIds
             /\ orders[id].user = u
             /\ orders[id].status \notin {"pending", "open", "partially_filled"})
            => /\ response' = Response("cancelOrder", "InvalidState", 0)
               /\ UNCHANGED <<wallet, orders, positions, trades, requests>>
       /\ \A r \in DOMAIN requests :
            (order_detail_cancel(r) /\ requests[r].order.status \in {"pending", "open", "partially_filled"})
            => LET id == requests[r].id
                   u == requests[r].user
               IN  /\ response' = Response("cancelOrder", "ok", 0)
                   /\ wallet'[u].available_balance
                        = wallet[u].available_balance + orders[id].margin_used
                   /\ wallet'[u].balance = wallet[u].balance
                   /\ \A v \in Users \ {u} : wallet'[v] = wallet[v]
                   /\ orders'[id].status = "cancelled"
                   /\ orders'[id].cancelled_at # 0
                   /\ Len(orders') = Len(orders)
                   /\ \A j \in OrderIds \ {id} : orders'[j] = orders[j]
                   /\ positions' = positions
                   /\ trades' = trades]_vars

\* an order was cancelled and its margin is back in the available balance
CancelOrderWitness ==
    /\ response = Response("cancelOrder", "ok", 0)
    /\ Len(orders) = 1
    /\ orders[1].status = "cancelled"
    /\ orders[1].cancelled_at # 0
    /\ orders[1].margin_used = 9500
    /\ wallet[orders[1].user] = NewWallet

\* C8: a cancelOrder call on an order that has already been cancelled is answered InvalidState
\* and releases nothing: the wallets and the orders are as the first cancellation left them.
SecondCancelRejected ==
    [][\A u \in Users, id \in 1 .. MaxOrders :
         (/\ order_detail_delete(u, id)
          /\ id \in OrderIds
          /\ orders[id].user = u
          /\ orders[id].status = "cancelled")
         => /\ response'.outcome = "InvalidState"
            /\ wallet' = wallet
            /\ orders' = orders
            /\ requests' = requests]_vars

\* the second cancellation of an order was refused
SecondCancelWitness ==
    /\ response = Response("cancelOrder", "InvalidState", 0)
    /\ \E id \in OrderIds : orders[id].status = "cancelled" /\ orders[id].cancelled_at # 0
    /\ requests = <<>>

\* C9: a market order that passes validation and the margin check, on a symbol where the
\* account has no open position, commits exactly one open Position (long for buy, short for
\* sell) with entry_price = execution price, quantity = order quantity and margin =
\* notional / leverage, and exactly one Trade with the fill's quantity, price and commission.
MarketFillOpensPosition ==
    [][\A sub \in Submissions :
         LET u == sub.user
             data == sub.data
             pid == Len(positions) + 1
             tid == Len(trades) + 1
         IN  (/\ orders_list_post(u, sub.symbol, data)
              /\ validate(data)
              /\ data.order_type = "market"
              /\ wallet[u].available_balance * data.leverage >= ExpectedNotional(data)
              /\ existing_position(positions, u, upper(sub.symbol)) = 0)
             => /\ Len(positions') = pid
                /\ positions'[pid].is_open
                /\ positions'[pid].side = (IF data.side = "buy" THEN "long" ELSE "short")
                /\ positions'[pid].entry_price = ExpectedPrice(data)
                /\ positions'[pid].quantity = data.quantity
                /\ positions'[pid].margin * data.leverage = ExpectedNotional(data)
                /\ Len(trades') = tid
                /\ trades'[tid].quantity = data.quantity
                /\ trades'[tid].price = ExpectedPrice(data)
                /\ trades'[tid].commission * TAKER_FEE_DEN
                     = ExpectedNotional(data) * TAKER_FEE_NUM]_vars

\* C10: every submitOrder call ends as a committed Order, a ValidationError or an
\* InsufficientMargin.
SubmitOutcomesTyped ==
    response.op = "submitOrder"
        => response.outcome \in {"created", "ValidationError", "InsufficientMargin"}

---------------------------------------------------------------------------
(* Properties of validation, order lifecycle and positions *)

\* a body the order rules turn down: no positive quantity, a limit or stop-limit order
\* without a price, a stop-limit or stop-market order without a stop price
Rejectable(data) ==
    \/ data.quantity <= 0
    \/ data.order_type \in {"limit", "stop_limit"} /\ data.price = 0
    \/ data.order_type \in {"stop_limit", "stop_market"} /\ data.stop_price = 0

\* C11: submitOrder answers ValidationError, and changes no wallet, order, position or
\* trade, for every body with quantity <= 0, every limit or stop-limit body without a price
\* and every stop-limit or stop-market body without a stop price.
InvalidSpecRejected ==
    [][\A sub \in PositionSubmissions :
         (orders_list_post(sub.user, sub.symbol, sub.data) /\ Rejectable(sub.data))
         => /\ response' = Response("submitOrder", "ValidationError", 0)
            /\ wallet' = wallet
            /\ orders' = orders
            /\ positions' = positions
            /\ trades' = trades]_vars

\* C12: the order a committed submitOrder leaves is filled if and only if its type is
\* market, and open otherwise; a filled order has filled_quantity = quantity and
\* average_price = execution price, an open one has filled_quantity = 0; and no committed
\* state holds an order in status pending.
SubmitCommitsFilledOrOpen ==
    [][/\ \A i \in 1 .. Len(orders') : orders'[i].status # "pending"
       /\ \A sub \in PositionSubmissions :
            (/\ orders_list_post(sub.user, sub.symbol, sub.data)
             /\ response'.outcome = "created")
            => LET oid == Len(orders) + 1
               IN  /\ Len(orders') = oid
                   /\ orders'[oid].status = "filled" <=> sub.data.order_type = "market"
                   /\ sub.data.order_type # "market" => orders'[oid].status = "open"
                   /\ orders'[oid].status = "filled"
                      => /\ orders'[oid].filled_quantity = sub.data.quantity
                         /\ orders'[oid].average_price = ExpectedPrice(sub.data)
                   /\ orders'[oid].status = "open"
                      => orders'[oid].filled_quantity = 0]_vars

\* a market order was filled at its price and another order is parked open
SubmitCommitsWitness ==
    /\ Len(orders) = 2
    /\ orders[1].order_type = "market"
    /\ orders[1].status = "filled"
    /\ orders[1].filled_quantity = 1
    /\ orders[1].average_price = 100000
    /\ orders[2].order_type = "stop_limit"
    /\ orders[2].status = "open"
    /\ orders[2].filled_quantity = 0

\* C13: once an order is filled or cancelled, no later step, under any interleaving,
\* changes its status, filled_quantity, margin_used, average_price, commission, filled_at
\* or cancelled_at.
TerminalOrdersImmutable ==
    [][\A i \in OrderIds :
         orders[i].status \in {"filled", "cancelled"}
         => /\ orders'[i].status = orders[i].status
            /\ orders'[i].filled_quantity = orders[i].filled_quantity
            /\ orders'[i].margin_used = orders[i].margin_used
            /\ orders'[i].average_price = orders[i].average_price
            /\ orders'[i].commission = orders[i].commission
            /\ orders'[i].filled_at = orders[i].filled_at
            /\ orders'[i].cancelled_at = orders[i].cancelled_at]_vars

\* C15: on a wallet of balance 10,000 and available 10,000, with no open position, a market
\* buy of 1 unit at leverage 10 and price 95,000 commits an order with margin_used 9,500
\* and commission 38, and leaves balance 9,962 and available 500.
MarketBuyScenario ==
    [][(/\ orders_list_post("u1", "BTCUSDT", MarketBuy)
        /\ wallet["u1"] = NewWallet
        /\ existing_position(positions, "u1", "BTCUSDT") = 0)
       => /\ response'.outcome = "created"
          /\ Len(orders') = Len(orders) + 1
          /\ orders'[Len(orders')].margin_used = 9500
          /\ orders'[Len(orders')].commission = 38
          /\ wallet'["u1"].balance = 9962
          /\ wallet'["u1"].available_balance = 500]_vars

\* what a close request is expected to close, and at what price
ExpectedClosePrice(data) == IF data.price # 0 THEN data.price ELSE MOCK_PRICE
ExpectedCloseQuantity(data, position) ==
    IF data.quantity # 0 THEN data.quantity ELSE position.quantity

\* (price - entry) x quantity for a long position, (entry - price) x quantity for a short
ExpectedPnl(position, price, quantity) ==
    IF position.side = "long"
    THEN (price - position.entry_price) * quantity
    ELSE (position.entry_price - price) * quantity

\* C14: a successful closePosition changes balance and available by the same amount,
\* (pnl - commission) + released_margin, with commission = close_quantity x close_price x
\* 0.0004 and released_margin the whole margin on a full close and margin x closed /
\* quantity on a partial one; a long of 1 unit entered at 95,000 with margin 9,500 and
\* closed fully at 100,000 has pnl 5,000 and commission 40 and adds 14,460 to both.
ClosePositionLedger ==
    [][\A r \in DOMAIN requests, data \in CloseRequests :
         (position_detail_close(r, data) /\ response'.outcome = "ok")
         => LET position == requests[r].position
                u == requests[r].user
                price == ExpectedClosePrice(data)
                quantity == ExpectedCloseQuantity(data, position)
                pnl == ExpectedPnl(position, price, quantity)
                commission == trades'[Len(trades')].commission
                by == wallet'[u].balance - wallet[u].balance
                released_margin == by - (pnl - commission)
            IN  /\ Len(trades') = Len(trades) + 1
                /\ commission * TAKER_FEE_DEN = quantity * price * TAKER_FEE_NUM
                /\ wallet'[u].available_balance - wallet[u].available_balance = by
                /\ IF quantity >= position.quantity
                   THEN released_margin = position.margin
                   ELSE released_margin * position.quantity = position.margin * quantity
                /\ (/\ position.side = "long"
                    /\ position.quantity = 1
                    /\ position.entry_price = 95000
                    /\ position.margin = 9500
                    /\ price = 100000
                    /\ quantity = 1)
                   => /\ pnl = 5000
                      /\ commission = 40
                      /\ by = 14460
                /\ \A v \in Users \ {u} : wallet'[v] = wallet[v]]_vars

\* a long of 1 unit entered at 95,000 on margin 9,500 was closed fully at 100,000: the
\* wallet of 14,464 that its earlier partial close had left is 14,460 richer
ClosePositionWitness ==
    /\ response = Response("closePosition", "ok", 0)
    /\ Len(trades) = 2
    /\ trades[2].position = 1
    /\ trades[2].price = 100000
    /\ trades[2].quantity = 1
    /\ trades[2].realized_pnl = 5000
    /\ trades[2].commission = 40
    /\ trades[1].price = 90000
    /\ positions[1].side = "long"
    /\ positions[1].entry_price = 95000
    /\ positions[1].margin = 9500
    /\ ~positions[1].is_open
    /\ wallet["u1"] = [balance |-> 28924, available_balance |-> 28924]

Abs(x) == IF x < 0 THEN -x ELSE x

\* C16: a fill that reduces or closes an opposite position changes balance by exactly
\* pnl - commission (applyPnL and deductCommission; the releases go to available only)
\* and available, as the reservation left it, by pnl + released_margin + margin_used -
\* commission.
OppositeFillLedger ==
    [][\A sub \in PositionSubmissions :
         LET u == sub.user
             data == sub.data
             pid == existing_position(positions, u, upper(sub.symbol))
         IN  (/\ orders_list_post(u, sub.symbol, data)
              /\ response'.outcome = "created"
              /\ data.order_type = "market"
              /\ pid # 0)
             => LET position == positions[pid]
                    order == orders'[Len(orders')]
                    price == ExpectedPrice(data)
                    pnl == ExpectedPnl(position, price, Min(data.quantity, position.quantity))
                    released_margin ==
                        IF data.quantity >= position.quantity THEN position.margin
                        ELSE (position.margin * data.quantity) \div position.quantity
                IN  /\ position.side = (IF data.side = "buy" THEN "short" ELSE "long")
                    /\ wallet'[u].balance - wallet[u].balance = pnl - order.commission
                    /\ wallet'[u].available_balance
                         - (wallet[u].available_balance - order.margin_used)
                       = pnl + released_margin + order.margin_used - order.commission]_vars

\* C17: a full close (closePosition with the position's quantity, or none, or an opposite
\* fill of at least the position's quantity) releases the whole margin and leaves the
\* position closed with quantity 0; a partial close takes the closed amount from quantity
\* and margin x closed / quantity from margin, and leaves the position open.
FullCloseZeroesPosition ==
    [][/\ \A r \in DOMAIN requests, data \in CloseRequests :
            (position_detail_close(r, data) /\ response'.outcome = "ok")
            => LET position == requests[r].position
                   after == positions'[requests[r].id]
                   quantity == ExpectedCloseQuantity(data, position)
               IN  IF quantity = position.quantity
                   THEN /\ ~after.is_open
                        /\ after.quantity = 0
                   ELSE /\ after.is_open
                        /\ after.quantity = position.quantity - quantity
                        /\ after.margin * position.quantity
                             = position.margin * (position.quantity - quantity)
       /\ \A sub \in PositionSubmissions :
            LET pid == existing_position(positions, sub.user, upper(sub.symbol))
            IN  (/\ orders_list_post(sub.user, sub.symbol, sub.data)
                 /\ response'.outcome = "created"
                 /\ sub.data.order_type = "market"
                 /\ pid # 0)
                => LET position == positions[pid]
                       after == positions'[pid]
                       quantity == sub.data.quantity
                   IN  IF quantity >= position.quantity
                       THEN /\ ~after.is_open
                            /\ after.quantity = 0
                       ELSE /\ after.is_open
                            /\ after.quantity = position.quantity - quantity
                            /\ after.margin * position.quantity
                                 = position.margin * (position.quantity - quantity)]_vars

\* C18: in every state an open position has quantity > 0 and a closed position has
\* quantity = 0.
ClosedPositionsAreEmpty ==
    \A i \in PositionIds :
        IF positions[i].is_open THEN positions[i].quantity > 0 ELSE positions[i].quantity = 0

\* C19: closePosition on a position that is not open answers InvalidState, and a request
\* for more than the position's quantity answers ValidationError; either way no trade is
\* created and the positions and the wallets stay as they were.
ClosePositionRejects ==
    [][/\ \A u \in Users, id \in 1 .. MaxPositions :
            (/\ position_detail_delete(u, id)
             /\ id \in PositionIds
             /\ positions[id].user = u
             /\ ~positions[id].is_open)
            => /\ response' = Response("closePosition", "InvalidState", 0)
               /\ UNCHANGED <<wallet, positions, trades, requests>>
       /\ \A r \in DOMAIN requests, data \in CloseRequests :
            (/\ position_detail_close(r, data)
             /\ ~positions[requests[r].id].is_open)
            => /\ response' = Response("closePosition", "InvalidState", 0)
               /\ UNCHANGED <<wallet, positions, trades>>
       /\ \A r \in DOMAIN requests, data \in CloseRequests :
            (/\ position_detail_close(r, data)
             /\ positions[requests[r].id].is_open
             /\ data.quantity > requests[r].position.quantity)
            => /\ response' = Response("closePosition", "ValidationError", 0)
               /\ UNCHANGED <<wallet, positions, trades>>]_vars

\* C20: what a close or an opposite fill adds to realized_pnl is |price - entry_price| x
\* closed quantity in magnitude, positive for a long closed above its entry price and for
\* a short closed below it, negative for a long closed below and a short closed above.
RealizedPnlSign ==
    [][/\ \A r \in DOMAIN requests, data \in CloseRequests :
            (position_detail_close(r, data) /\ response'.outcome = "ok")
            => LET position == requests[r].position
                   price == ExpectedClosePrice(data)
                   added == positions'[requests[r].id].realized_pnl - position.realized_pnl
                   up == IF position.side = "long" THEN price > position.entry_price
                         ELSE price < position.entry_price
                   down == IF position.side = "long" THEN price < position.entry_price
                           ELSE price > position.entry_price
               IN  /\ up => added > 0
                   /\ down => added < 0
                   /\ Abs(added) = Abs(price - position.entry_price)
                                     * ExpectedCloseQuantity(data, position)
       /\ \A sub \in PositionSubmissions :
            LET pid == existing_position(positions, sub.user, upper(sub.symbol))
            IN  (/\ orders_list_post(sub.user, sub.symbol, sub.data)
                 /\ response'.outcome = "created"
                 /\ sub.data.order_type = "market"
                 /\ pid # 0)
                => LET position == positions[pid]
                       price == ExpectedPrice(sub.data)
                       added == positions'[pid].realized_pnl - position.realized_pnl
                       up == IF position.side = "long" THEN price > position.entry_price
                             ELSE price < position.entry_price
                       down == IF position.side = "long" THEN price < position.entry_price
                               ELSE price > position.entry_price
                   IN  /\ up => added > 0
                       /\ down => added < 0
                       /\ Abs(added) = Abs(price - position.entry_price)
                                         * Min(sub.data.quantity, position.quantity)]_vars

\* C21: in every reachable state there is at most one open Position for each account,
\* symbol and side.
OneOpenPositionPerSide ==
    \A i, j \in PositionIds :
        (/\ i # j
         /\ positions[i].is_open
         /\ positions[j].is_open
         /\ positions[i].user = positions[j].user
         /\ positions[i].symbol = positions[j].symbol)
        => positions[i].side # positions[j].side

\* a close on a stale instance would have re-opened a row next to its open twin, and the
\* save was refused
OneOpenPositionWitness ==
    /\ response = Response("closePosition", "IntegrityError", 0)
    /\ \E i, j \in PositionIds :
         /\ i # j
         /\ positions[i].is_open
         /\ ~positions[j].is_open
         /\ positions[i].user = positions[j].user
         /\ positions[i].symbol = positions[j].symbol
         /\ positions[i].side = positions[j].side

\* C22: in every reachable state an account has at most one open Position per symbol,
\* whatever the side: never an open long and an open short in the same symbol.
OneOpenPositionPerSymbol ==
    \A i, j \in PositionIds :
        (/\ i # j
         /\ positions[i].is_open
         /\ positions[j].is_open
         /\ positions[i].user = positions[j].user)
        => positions[i].symbol # positions[j].symbol

\* C23: a market fill on the side of the open position is committed, and leaves the
\* position open on that side with the quantities and the margins summed and the entry
\* price at the volume-weighted average; nothing is returned to available.
AddToPositionSums ==
    [][\A sub \in PositionSubmissions :
         LET u == sub.user
             data == sub.data
             pid == existing_position(positions, u, upper(sub.symbol))
         IN  (/\ orders_list_post(u, sub.symbol, data)
              /\ validate(data)
              /\ data.order_type = "market"
              /\ pid # 0
              /\ positions[pid].side = (IF data.side = "buy" THEN "long" ELSE "short")
              /\ ExpectedNotional(data) \div data.leverage <= wallet[u].available_balance)
             => LET position == positions[pid]
                    after == positions'[pid]
                    price == ExpectedPrice(data)
                    margin == ExpectedNotional(data) \div data.leverage
                IN  /\ response'.outcome = "created"
                    /\ after.is_open
                    /\ after.side = position.side
                    /\ after.quantity = position.quantity + data.quantity
                    /\ after.margin = position.margin + margin
                    /\ after.entry_price * after.quantity
                         = position.entry_price * position.quantity + price * data.quantity
                    /\ wallet'[u].available_balance
                         <= wallet[u].available_balance - margin]_vars

\* the orders of account u that a cancel-all with this symbol argument is about
OrdersOf(u, sym) ==
    { i \in OrderIds : orders[i].user = u /\ (sym # "" => orders[i].symbol = upper(sym)) }

MarginUsed == [i \in OrderIds |-> orders[i].margin_used]

\* C24: cancelAllOrders returns the number of orders it cancelled; afterwards the account
\* has no active order (in the symbol, when one is given), available has gone up by exactly
\* the margin_used of the cancelled orders, balance is unchanged, and the orders of other
\* symbols and of other accounts are unchanged.
CancelAllOrdersContract ==
    [][\A sym \in {"", "btcusdt"} :
         cancel_all_orders("u1", sym)
         => LET hit == { i \in OrdersOf("u1", sym) : orders[i].status \in ActiveStatuses }
            IN  /\ response' = Response("cancelAllOrders", "ok", Cardinality(hit))
                /\ \A i \in hit : orders'[i].status = "cancelled"
                /\ \A i \in OrdersOf("u1", sym) : orders'[i].status \notin ActiveStatuses
                /\ wallet'["u1"].available_balance
                     = wallet["u1"].available_balance + SumOf(MarginUsed, hit)
                /\ wallet'["u1"].balance = wallet["u1"].balance
                /\ Len(orders') = Len(orders)
                /\ \A i \in OrderIds \ hit : orders'[i] = orders[i]
                /\ wallet'["u2"] = wallet["u2"]
                /\ UNCHANGED <<positions, trades>>]_vars

\* a cancel-all in BTCUSDT has cancelled one order, and the account's ETHUSDT order and
\* the other account's BTCUSDT order are still active
CancelAllOrdersWitness ==
    /\ response = Response("cancelAllOrders", "ok", 1)
    /\ \E i, j \in OrderIds :
         /\ orders[i].user = "u1"
         /\ orders[i].symbol = "BTCUSDT"
         /\ orders[i].status = "cancelled"
         /\ orders[j].status \in ActiveStatuses
         /\ (orders[j].user = "u2" \/ orders[j].symbol = "ETHUSDT")

\* C25: a cancel-all over N orders of which some are no longer active (filled, or
\* cancelled) answers with the number of the others and does not raise; the order that was
\* no longer active stays as it was and its margin is not released.
CancelAllSkipsInactive ==
    [][\A sym \in {"", "btcusdt"} :
         cancel_all_orders("u1", sym)
         => LET mine == OrdersOf("u1", sym)
                gone == { i \in mine : orders[i].status \in {"filled", "cancelled"} }
            IN  /\ response'.outcome = "ok"
                /\ response'.count = Cardinality(mine) - Cardinality(gone)
                /\ \A i \in gone : orders'[i] = orders[i]
                /\ wallet'["u1"].available_balance - wallet["u1"].available_balance
                     = SumOf(MarginUsed, mine) - SumOf(MarginUsed, gone)]_vars

\* a cancel-all over a filled order and an active one has answered 1
CancelAllSkipsWitness ==
    /\ response = Response("cancelAllOrders", "ok", 1)
    /\ \E i, j \in OrderIds :
         /\ orders[i].user = "u1"
         /\ orders[i].status = "filled"
         /\ orders[i].margin_used > 0
         /\ orders[j].user = "u1"
         /\ orders[j].status = "cancelled"
         /\ orders[j].cancelled_at >= orders[i].filled_at

\* C26, as stated: each cancellation of a cancel-all is its own transaction, so no
\* committed step of the batch cancels more than one order.
CancelAllOneByOne ==
    [][\A sym \in {"", "btcusdt"} :
         cancel_all_orders("u1", sym)
         => Cardinality({ i \in OrderIds : orders'[i] # orders[i] }) <= 1]_vars

\* C26, amended: cancel-all is one transaction. Every order the batch selects is cancelled
\* in the one step that commits it, with one time stamp, together with the release of all
\* their margins: no state holds a part of a batch.
CancelAllCommitsTogether ==
    [][\A sym \in {"", "btcusdt"} :
         cancel_all_orders("u1", sym)
         => LET hit == { i \in OrdersOf("u1", sym) : orders[i].status \in ActiveStatuses }
            IN  /\ \A i \in hit :
                     /\ orders'[i].status = "cancelled"
                     /\ orders'[i].cancelled_at = now
                /\ response'.count = Cardinality(hit)
                /\ wallet'["u1"].available_balance - wallet["u1"].available_balance
                     = SumOf(MarginUsed, hit)]_vars

\* one cancel-all has cancelled two orders at once
CancelAllTogetherWitness ==
    /\ response = Response("cancelAllOrders", "ok", 2)
    /\ \E i, j \in OrderIds :
         /\ i # j
         /\ orders[i].status = "cancelled"
         /\ orders[j].status = "cancelled"
         /\ orders[i].cancelled_at = orders[j].cancelled_at
         /\ orders[i].cancelled_at = now - 1

\* C27: a submission and its fill are committed together or not at all. A submission that
\* is not answered with the created order leaves orders, positions, trades and wallets as
\* they were; one that is adds exactly one order with its reservation, and if that order is
\* filled, its trade, the change of the position and the change of the wallet with it.
SubmitAllOrNothing ==
    [][\A sub \in PositionSubmissions :
         orders_list_post(sub.user, sub.symbol, sub.data)
         => IF response'.outcome # "created"
            THEN UNCHANGED db
            ELSE LET order == orders'[Len(orders')]
                 IN  /\ Len(orders') = Len(orders) + 1
                     /\ \A i \in OrderIds : orders'[i] = orders[i]
                     /\ order.margin_used = ExpectedNotional(sub.data) \div sub.data.leverage
                     /\ IF order.status = "filled"
                        THEN /\ Len(trades') = Len(trades) + 1
                             /\ trades'[Len(trades')].order = Len(orders')
                             /\ positions' # positions
                             /\ wallet' # wallet
                        ELSE /\ order.status = "open"
                             /\ UNCHANGED <<positions, trades>>
                             /\ wallet'[sub.user].available_balance
                                  = wallet[sub.user].available_balance - order.margin_used
                             /\ wallet'[sub.user].balance = wallet[sub.user].balance]_vars

\* a market order on the side of the open position was reserved for and then aborted in
\* its fill: no order, no reservation and no trade are left of it
SubmitAllOrNothingWitness ==
    /\ response = Response("submitOrder", "TypeError", 0)
    /\ orders = <<>>
    /\ trades = <<>>
    /\ wallet["u1"] = NewWallet
    /\ \E i \in PositionIds : positions[i].is_open /\ positions[i].side = "long"

OwnRowsOnly ==
    [][/\ \A u \in Users, id \in 1 .. MaxOrders :
            (order_detail_delete(u, id) /\ ~(id \in OrderIds /\ orders[id].user = u))
            => /\ response' = Response("cancelOrder", "NotFound", 0)
               /\ UNCHANGED <<db, requests>>
       /\ \A u \in Users, id \in 1 .. MaxPositions :
            (position_detail_delete(u, id)
               /\ ~(id \in PositionIds /\ positions[id].user = u))
            => /\ response' = Response("closePosition", "NotFound", 0)
               /\ UNCHANGED <<db, requests>>
       /\ \A u \in Users, id \in 1 .. MaxPositions, data \in ThresholdRequests :
            (position_detail_patch(u, id, data)
               /\ ~(id \in PositionIds /\ positions[id].user = u))
            => /\ response' = Response("updatePositionThresholds", "NotFound", 0)
               /\ UNCHANGED <<db, requests>>
       /\ \A r \in DOMAIN requests' :
            LET req == requests'[r]
            IN  IF req.kind = "cancelOrder"
                THEN orders[req.id].user = req.user
                ELSE positions[req.id].user = req.user]_vars

\* the second account has asked to close the open position of the first and was answered
\* NotFound
OwnRowsOnlyWitness ==
    /\ response = Response("closePosition", "NotFound", 0)
    /\ \A i \in 1 .. MaxPositions :
         /\ i \in PositionIds
         /\ positions[i].is_open
         /\ positions[i].user = "u1"
    /\ requests = <<>>

\* C30: the trade log only grows at its end. A step keeps every trade there is; a
\* committed fill and a successful close add exactly one trade, and every other step,
\* refused or aborted calls, cancellations, parked submissions and resets among them, adds
\* none.
TradeLogAppendOnly ==
    [][LET fill == /\ Len(orders') = Len(orders) + 1
                   /\ orders'[Len(orders')].status = "filled"
           close == \E r \in DOMAIN requests :
                       /\ position_detail_close(r, CloseAllAbove)
                       /\ response'.outcome = "ok"
       IN  /\ Len(trades') >= Len(trades)
           /\ \A i \in 1 .. Len(trades) : trades'[i] = trades[i]
           /\ IF fill \/ close
              THEN Len(trades') = Len(trades) + 1
              ELSE trades' = trades]_vars

\* the trade of a fill and the trade of a close are both in the log after a cancel-all
\* and a reset
TradeLogWitness ==
    /\ Len(trades) = 2
    /\ trades[1].order # 0
    /\ trades[2].order = 0
    /\ response.op = "resetWallet"
    /\ \E i \in OrderIds : orders[i].status = "cancelled"

\* C31: a market fill that opens a position, or adds to one on its side, is committed and
\* leaves the position with liquidation_price = entry_price x (1 - 0.9 / leverage) for a
\* long and entry_price x (1 + 0.9 / leverage) for a short, so below the entry price for
\* a long and above it for a short.
LiquidationPriceSet ==
    [][\A sub \in PositionSubmissions :
         LET u == sub.user
             data == sub.data
             pid == existing_position(positions, u, upper(sub.symbol))
             position_side == IF data.side = "buy" THEN "long" ELSE "short"
         IN  (/\ orders_list_post(u, sub.symbol, data)
              /\ validate(data)
              /\ data.order_type = "market"
              /\ pid # 0 => positions[pid].side = position_side
              /\ ExpectedNotional(data) \div data.leverage <= wallet[u].available_balance)
             => /\ response'.outcome = "created"
                /\ \E i \in 1 .. Len(positions') :
                     LET after == positions'[i]
                         tenths == IF after.side = "long"
                                   THEN 10 * after.leverage - 9
                                   ELSE 10 * after.leverage + 9
                     IN  /\ after.is_open
                         /\ after.user = u
                         /\ after.side = position_side
                         /\ after.liquidation_price * 10 * after.leverage
                              = after.entry_price * tenths
                         /\ IF after.side = "long"
                            THEN after.liquidation_price < after.entry_price
                            ELSE after.liquidation_price > after.entry_price]_vars

\* the trades of account u
TradesOf(u) == { i \in 1 .. Len(trades) : trades[i].user = u }

\* C32: with no reset, the balance of an account is the starting balance plus the pnl its
\* positions have realized minus the commission of its trades: reserving and releasing
\* margin never reach balance.
BalanceIsPnlMinusCommission ==
    \A u \in Users :
        wallet[u].balance
          = 10000
            + SumOf([i \in PositionIds |-> positions[i].realized_pnl],
                    { i \in PositionIds : positions[i].user = u })
            - SumOf([i \in 1 .. Len(trades) |-> trades[i].commission], TradesOf(u))

\* C33: every order that is accepted has margin_used > 0, and no submission increases
\* the available balance.
AcceptedMarginPositive ==
    [][\A sub \in Submissions :
         orders_list_post(sub.user, sub.symbol, sub.data)
         => /\ wallet'[sub.user].available_balance <= wallet[sub.user].available_balance
            /\ response'.outcome = "created" => orders'[Len(orders')].margin_used > 0]_vars

\* C34: a successful close never increases the quantity or the margin of the position,
\* records a strictly positive quantity on its trade, and leaves quantity >= 0 and
\* margin >= 0, whatever quantity the request carried.
CloseNeverGrows ==
    [][\A r \in DOMAIN requests, data \in CloseRequests :
         (position_detail_close(r, data) /\ response'.outcome = "ok")
         => LET position == requests[r].position
                after == positions'[requests[r].id]
            IN  /\ after.quantity <= position.quantity
                /\ after.margin <= position.margin
                /\ after.quantity >= 0
                /\ after.margin >= 0
                /\ trades'[Len(trades')].quantity > 0]_vars

\* C35: the realized_pnl of every position is the sum of the realized_pnl of the trades
\* that reference it.
RealizedPnlMatchesTrades ==
    \A p \in PositionIds :
        positions[p].realized_pnl
          = SumOf([i \in 1 .. Len(trades) |-> trades[i].realized_pnl],
                  { i \in 1 .. Len(trades) : trades[i].position = p })

\* C36: an order parked as open is never filled. A step leaves an open order as it is,
\* margin_used included, or cancels it, and then the step is a cancelOrder, a
\* cancelAllOrders or a resetWallet; no order is ever pending, partially filled or
\* rejected in a committed state.
ParkedOrderLifecycle ==
    [][/\ \A i \in OrderIds :
            orders[i].status = "open"
            => \/ orders'[i] = orders[i]
               \/ /\ orders'[i].status = "cancelled"
                  /\ orders'[i].margin_used = orders[i].margin_used
                  /\ orders'[i].filled_quantity = 0
                  /\ response'.op \in {"cancelOrder", "cancelAllOrders", "resetWallet"}
       /\ \A i \in 1 .. Len(orders') :
            orders'[i].status \in {"open", "filled", "cancelled"}]_vars

\* a market order was filled while an earlier limit order stayed parked with its margin
ParkedOrderWitness ==
    \E i, j \in OrderIds :
        /\ i < j
        /\ orders[i].status = "open"
        /\ orders[i].order_type = "limit"
        /\ orders[i].margin_used > 0
        /\ orders[j].status = "filled"
        /\ trades # <<>>

====
